---------------------------- MODULE Spec2Model ----------------------------
(***************************************************************************)
(* A model of the Mixpanel client library of src/mixpanel.go: the request  *)
(* signer (AddExpire, AddSig), the generic request helper (MakeRequest)    *)
(* and the endpoint methods built on it.                                   *)
(*                                                                         *)
(* A Go string is a sequence of one-character strings, so that splitting,  *)
(* escaping, encoding and byte-wise comparison are computed, not assumed.  *)
(* A Go map[string]string is a function from a finite set of such keys.    *)
(***************************************************************************)
EXTENDS Integers, Sequences, FiniteSets, TLC

VARIABLES
  m,          \* the client: ApiKey, Secret, Format, BaseUrl
  now,        \* time.Now(), in Unix seconds
  params,     \* the parameter map of the caller, shared by its calls
  sigLog,     \* the AddSig invocations so far, the two latest kept
  expireLog,  \* the AddExpire invocations so far, the two latest kept
  sent,       \* the requests MakeRequest built on params, the two latest kept
  mutations,  \* number of caller mutations of params so far
  ticks,      \* number of clock steps so far
  pc,         \* per goroutine: position in its endpoint call
  call,       \* per goroutine: the endpoint method it is calling
  calls,      \* per goroutine: number of calls started
  serialized, \* whether the callers serialize their calls on the client
  wire,       \* the requests the goroutines put on the wire
  reply,      \* the answer of the server to the latest endpoint call
  outcome     \* what the latest endpoint call gave back to its caller

vars == <<m, now, params, sigLog, expireLog, sent, mutations, ticks,
          pc, call, calls, serialized, wire, reply, outcome>>

---------------------------------------------------------------------------
(* Bounds of the model.                                                    *)

\* Caller mutations of the map in one behaviour of the signer.
MaxMutations == 2
\* MakeRequest calls on one map.
MaxRequests == 2
\* Clock steps in one behaviour.
MaxTicks == 1
\* Endpoint calls per goroutine.
MaxCalls == 2
\* Lines of an export body.
MaxLines == 3

---------------------------------------------------------------------------
(* Strings.                                                                *)

\* The printable ASCII characters in ascending byte order, from 0x20 (the
\* backtick, 0x60, is spelled out).
Ascii ==
  <<
    " ", "!", "\"", "#", "$", "%", "&", "'", "(", ")", "*", "+", ",", "-",
    ".", "/", "0", "1", "2", "3", "4", "5", "6", "7", "8", "9", ":", ";",
    "<", "=", ">", "?", "@", "A", "B", "C", "D", "E", "F", "G", "H", "I",
    "J", "K", "L", "M", "N", "O", "P", "Q", "R", "S", "T", "U", "V", "W",
    "X", "Y", "Z", "[", "\\", "]", "^", "_", "(backtick)", "a", "b", "c", "d", "e",
    "f", "g", "h", "i", "j", "k", "l", "m", "n", "o", "p", "q", "r", "s",
    "t", "u", "v", "w", "x", "y", "z", "{", "|", "}", "~"
  >>

\* The digest alphabet: one symbol per hashed byte.  Md5Hex below maps a
\* byte string to a string over this alphabet, injectively: the hash is
\* treated as collision-free, and a digest is told from every other string.
DigestSymbols ==
  <<
    "# ", "#!", "#\"", "##", "#$", "#%", "#&", "#'", "#(", "#)", "#*", "#+",
    "#,", "#-", "#.", "#/", "#0", "#1", "#2", "#3", "#4", "#5", "#6", "#7",
    "#8", "#9", "#:", "#;", "#<", "#=", "#>", "#?", "#@", "#A", "#B", "#C",
    "#D", "#E", "#F", "#G", "#H", "#I", "#J", "#K", "#L", "#M", "#N", "#O",
    "#P", "#Q", "#R", "#S", "#T", "#U", "#V", "#W", "#X", "#Y", "#Z", "#[",
    "#\\", "#]", "#^", "#_", "#(backtick)", "#a", "#b", "#c", "#d", "#e", "#f", "#g",
    "#h", "#i", "#j", "#k", "#l", "#m", "#n", "#o", "#p", "#q", "#r", "#s",
    "#t", "#u", "#v", "#w", "#x", "#y", "#z", "#{", "#|", "#}", "#~"
  >>

Range(s) == {s[i] : i \in 1..Len(s)}

Chars == Range(Ascii)

DigestChars == Range(DigestSymbols)

RECURSIVE IndexTable(_, _)
IndexTable(lo, hi) ==
  IF lo = hi THEN Ascii[lo] :> lo
  ELSE IndexTable(lo, (lo + hi) \div 2) @@ IndexTable((lo + hi) \div 2 + 1, hi)

\* The place of each character in Ascii.
IndexOf == IndexTable(1, Len(Ascii))

\* The byte value of a character.  A digest symbol stands for hex digits; it
\* is given a value above every byte so that Code is total.
Code(c) == IF c \in Chars THEN 31 + IndexOf[c] ELSE 256

Min(S) == CHOOSE x \in S : \A y \in S : x <= y

\* The order s < t of Go on strings: byte-wise lexicographic order.
StringLessAt(s, t, d) ==
  IF d > Len(s) \/ d > Len(t) THEN Len(s) < Len(t)
  ELSE Code(s[d]) < Code(t[d])

\* The first index at which s and t differ, or at which one of them ends.
FirstDiff(s, t) ==
  Min({i \in 1..Len(s) + 1 : i > Len(s) \/ i > Len(t) \/ s[i] # t[i]})

StringLess(s, t) == StringLessAt(s, t, FirstDiff(s, t))

RECURSIVE Concat(_)
\* The concatenation of a sequence of strings.
Concat(ss) ==
  IF Len(ss) = 0 THEN <<>>
  ELSE IF Len(ss) = 1 THEN ss[1]
  ELSE LET h == Len(ss) \div 2
       IN  Concat(SubSeq(ss, 1, h)) \o Concat(SubSeq(ss, h + 1, Len(ss)))

RECURSIVE Itoa(_)
\* fmt.Sprintf("%d", n) for n >= 0.
Itoa(n) ==
  IF n < 10 THEN <<Ascii[17 + n]>>
  ELSE Itoa(n \div 10) \o <<Ascii[17 + (n % 10)]>>

\* The pieces of s between the positions `at`, which are left out.
PiecesBetween(s, at) ==
  [j \in 1..Len(at) + 1 |->
     SubSeq(s, IF j = 1 THEN 1 ELSE at[j - 1] + 1,
               IF j = Len(at) + 1 THEN Len(s) ELSE at[j] - 1)]

\* The positions of s that hold c, in ascending order.
Positions(s, c) ==
  LET Holds(i) == s[i] = c
  IN  SelectSeq([i \in 1..Len(s) |-> i], Holds)

\* strings.Split(s, sep) for a one-character separator: the pieces between
\* the occurrences of sep, empty pieces included.
Split(s, sep) == PiecesBetween(s, Positions(s, sep))

\* The first index of s that holds c, Len(s) + 1 when none does.
FirstIndexIn(s, at) == IF at = <<>> THEN Len(s) + 1 ELSE at[1]

FirstIndex(s, c) == FirstIndexIn(s, Positions(s, c))

\* The names the library gives to parameters.
K_event == <<"e", "v", "e", "n", "t">>
K_expire == <<"e", "x", "p", "i", "r", "e">>
K_sig == <<"s", "i", "g">>
K_api_key == <<"a", "p", "i", "_", "k", "e", "y">>
K_format == <<"f", "o", "r", "m", "a", "t">>

---------------------------------------------------------------------------
(* Maps.                                                                   *)

\* params[k] of Go: the zero value "" for an absent key.
Get(p, k) == IF k \in DOMAIN p THEN p[k] ELSE <<>>

\* params[k] = v
Put(p, k, v) == [x \in DOMAIN p \cup {k} |-> IF x = k THEN v ELSE p[x]]

\* delete(params, k)
Delete(p, k) == [x \in DOMAIN p \ {k} |-> p[x]]

RECURSIVE Perms(_)
\* The orders in which a range loop over a map may visit a set of keys: Go
\* leaves the iteration order of a map unspecified.
Perms(S) ==
  IF S = {} THEN {<<>>}
  ELSE UNION {{<<x>> \o p : p \in Perms(S \ {x})} : x \in S}

---------------------------------------------------------------------------
(* Encodings.                                                              *)

HexDigits ==
  <<"0", "1", "2", "3", "4", "5", "6", "7", "8", "9", "A", "B", "C", "D",
    "E", "F">>

\* The characters url.QueryEscape leaves as they are: letters, digits and
\* - _ . ~ ; the hex digits of a digest are among them.
Unreserved ==
  {Ascii[i] : i \in (17..26) \cup (34..59) \cup (66..91)}
    \cup {"-", "_", ".", "~"} \cup DigestChars

EscapeChar(c) ==
  IF c \in Unreserved THEN <<c>>
  ELSE IF c = " " THEN <<"+">>
  ELSE <<"%", HexDigits[(Code(c) \div 16) + 1], HexDigits[(Code(c) % 16) + 1]>>

\* url.QueryEscape(s)
QueryEscape(s) == Concat([i \in 1..Len(s) |-> EscapeChar(s[i])])

HexValue(c) ==
  IF c \in Chars /\ IndexOf[c] \in 17..26 THEN IndexOf[c] - 17
  ELSE IndexOf[c] - 24

PlusToSpace(s) == [i \in 1..Len(s) |-> IF s[i] = "+" THEN " " ELSE s[i]]

\* url.QueryUnescape(s), the reading a server makes of an escaped value:
\* + is a space and %XY the byte with hex digits XY.
UnescapePart(part) ==
  <<Ascii[16 * HexValue(part[1]) + HexValue(part[2]) - 31]>>
    \o PlusToSpace(SubSeq(part, 3, Len(part)))

UnescapeParts(parts) ==
  Concat([j \in 1..Len(parts) |->
            IF j = 1 THEN PlusToSpace(parts[j]) ELSE UnescapePart(parts[j])])

QueryUnescape(s) == UnescapeParts(Split(s, "%"))

\* encoding/json on one character of a string: the quote and the backslash
\* are escaped, and so are < > & (HTML escaping is on in json.Marshal).
JsonChar(c) ==
  IF c = "\"" THEN <<"\\", "\"">>
  ELSE IF c = "\\" THEN <<"\\", "\\">>
  ELSE IF c = "<" THEN <<"\\", "u", "0", "0", "3", "c">>
  ELSE IF c = ">" THEN <<"\\", "u", "0", "0", "3", "e">>
  ELSE IF c = "&" THEN <<"\\", "u", "0", "0", "2", "6">>
  ELSE <<c>>

JsonString(s) ==
  <<"\"">> \o Concat([i \in 1..Len(s) |-> JsonChar(s[i])]) \o <<"\"">>

\* json.Marshal of a []string: it cannot fail, so MakeRequest never takes
\* the error return of line 131.
JsonMarshalStrings(ss) ==
  <<"[">>
    \o Concat([i \in 1..Len(ss) |->
                 IF i = 1 THEN JsonString(ss[i])
                 ELSE <<",">> \o JsonString(ss[i])])
    \o <<"]">>

\* hex of md5 of a byte string, as an injective map into digests.
Md5Hex(buf) == [i \in 1..Len(buf) |-> DigestSymbols[IndexOf[buf[i]]]]

---------------------------------------------------------------------------
(* The request signer.                                                     *)

DEFAULT_EXPIRE_IN_DAYS == 5

\* time.Now().Add(days * 24h).Unix(), time counted in seconds.
ExpireInDays(t, days) == t + days * 24 * 3600

\* AddExpire without its test: expire is stamped whatever the map holds.
AddExpire_Overwrite(p, t) ==
  Put(p, K_expire, Itoa(ExpireInDays(t, DEFAULT_EXPIRE_IN_DAYS)))

AddExpire(p, t) ==
  IF Get(p, K_expire) = <<>>
    THEN Put(p, K_expire, Itoa(ExpireInDays(t, DEFAULT_EXPIRE_IN_DAYS)))
    ELSE p

\* Lines 98 to 102: sig dropped, api_key and format set from the client.
WithCredentials(cl, p) ==
  Put(Put(Delete(p, K_sig), K_api_key, cl.ApiKey), K_format, cl.Format)

\* The place of k in an ascending slice.
InsertSorted(sorted, k) ==
  LET i == Cardinality({j \in 1..Len(sorted) : StringLess(sorted[j], k)})
  IN  SubSeq(sorted, 1, i) \o <<k>> \o SubSeq(sorted, i + 1, Len(sorted))

\* AddSig without its sort: the keys stay in the order of the range loop.
SortStrings_Unsorted(keys) == keys

RECURSIVE SortStrings(_)
\* sort.StringSlice(keys).Sort()
SortStrings(keys) ==
  IF keys = <<>> THEN <<>>
  ELSE InsertSorted(SortStrings(Tail(keys)), Head(keys))

\* The buffer written with & between the pairs, as a query string is.
WriteBuffer_Separated(cl, p, keys) ==
  Concat([i \in 1..Len(keys) |-> keys[i] \o <<"=">> \o p[keys[i]] \o <<"&">>])
    \o cl.Secret

\* The buffer written from the keys alone.
WriteBuffer_KeysOnly(cl, p, keys) ==
  Concat([i \in 1..Len(keys) |-> keys[i] \o <<"=">>]) \o cl.Secret

\* Lines 110 to 115: key=value for each key in turn, then the secret.
WriteBuffer(cl, p, keys) ==
  Concat([i \in 1..Len(keys) |-> keys[i] \o <<"=">> \o p[keys[i]]])
    \o cl.Secret

\* The bytes AddSig hashes when its range loop visits the keys in `order`.
SigBuffer(cl, p, order) ==
  WriteBuffer(cl, WithCredentials(cl, p), SortStrings(order))

\* Lines 118 to 121: the digest of the buffer stored under sig.
PutSig(cl, p, buffer) == Put(WithCredentials(cl, p), K_sig, Md5Hex(buffer))

AddSig(cl, p, order) == PutSig(cl, p, SigBuffer(cl, p, order))

\* The orders the range loop of AddSig may take on p.
SigOrders(cl, p) == Perms(DOMAIN WithCredentials(cl, p))

---------------------------------------------------------------------------
(* The generic request helper.                                             *)

\* The rewriting that leaves an event alone once it is a JSON array.
RewriteEvent_Once(p) ==
  LET event == Get(p, K_event)
      rest == Delete(p, K_event)
  IN  IF event = <<>> THEN rest
      ELSE IF Head(event) = "[" THEN p
      ELSE Put(rest, K_event, JsonMarshalStrings(Split(event, ",")))

\* Lines 125 to 134: the event list rewritten as a JSON array.
RewriteEvent(p) ==
  LET event == Get(p, K_event)
      ok == K_event \in DOMAIN p
      rest == Delete(p, K_event)
  IN  IF ok /\ event # <<>>
        THEN Put(rest, K_event, JsonMarshalStrings(Split(event, ",")))
        ELSE rest

\* uri[:len(uri)-1]
DropLast(s) == SubSeq(s, 1, Len(s) - 1)

RECURSIVE Segments(_, _)
\* Lines 141 and 142: what the range loop writes for each entry of the map,
\* key=escaped value& .
Segments(p, keys) ==
  IF keys = {} THEN <<>>
  ELSE LET k == CHOOSE x \in keys : TRUE
       IN  (k :> (k \o <<"=">> \o QueryEscape(p[k]) \o <<"&">>))
             @@ Segments(p, keys \ {k})

\* Lines 139 to 146: the segments in the order of the range loop, the last &
\* cut off.
JoinSegments(segs, order) ==
  DropLast(Concat([i \in 1..Len(order) |-> segs[order[i]]]))




\* One key=value piece of a query string, cut at its first =.
ParsePairAt(seg, cut) ==
  <<SubSeq(seg, 1, cut - 1), QueryUnescape(SubSeq(seg, cut + 1, Len(seg)))>>

ParsePair(seg) == ParsePairAt(seg, FirstIndex(seg, "="))

PairsToMap(pairs) ==
  [k \in {pairs[i][1] : i \in 1..Len(pairs)} |->
     pairs[CHOOSE i \in 1..Len(pairs) : pairs[i][1] = k][2]]

ParsePieces(segs) == PairsToMap([i \in 1..Len(segs) |-> ParsePair(segs[i])] \o <<>>)

\* What a server reads from a query string: the pairs between the &, each
\* cut at its first =, the value unescaped.
ParseQuery(q) == ParsePieces(Split(q, "&"))

---------------------------------------------------------------------------
(* The client and the inputs of the model.                                 *)

MainHost == "http://mixpanel.com/api/2.0"
ExportHost == "http://data.mixpanel.com/api/2.0"

\* A Go string value is two words, a pointer to its bytes and a length; the
\* assignment of a string writes both.
StringHeader(host) ==
  [data |-> host, len |-> IF host = MainHost THEN 27 ELSE 32]

\* NewMixpanel: credentials are non-empty, the format is json and the base
\* URL is the main host.
NewMixpanel(apiKey, secret) ==
  [ApiKey |-> apiKey, Secret |-> secret,
   Format |-> <<"j", "s", "o", "n">>, BaseUrl |-> StringHeader(MainHost)]

Clients ==
  {NewMixpanel(<<"k">>, <<"s">>), NewMixpanel(<<"k", "2">>, <<"s", "2">>)}

StartTimes == {100}

K_x == <<"x">>
K_y == <<"y">>

AuthKeys == {K_sig, K_api_key, K_format}

\* The values a caller gives to each key.
CallerValues(k) ==
  IF k = K_event THEN {<<>>, <<"a">>, <<"a", ",", "b">>}
  ELSE IF k = K_expire THEN {<<>>, <<"1", "0", "0">>}
  ELSE IF k = K_x THEN {<<"1">>, <<"1", "y", "=", "2">>}
  ELSE IF k = K_y THEN {<<"2">>}
  ELSE IF k = K_format THEN {<<"x", "m", "l">>}
  ELSE {<<"1">>}

RECURSIVE MapsOver(_)
\* The maps a caller can build over a set of keys.
MapsOver(ks) ==
  IF ks = {} THEN {<<>>}
  ELSE LET k == CHOOSE x \in ks : TRUE
       IN  MapsOver(ks \ {k})
             \cup {Put(p, k, v) : p \in MapsOver(ks \ {k}), v \in CallerValues(k)}

\* The entries of p and of q, those of p first.
Merge(p, q) ==
  [k \in DOMAIN p \cup DOMAIN q |-> IF k \in DOMAIN p THEN p[k] ELSE q[k]]

\* A caller who filled in the authentication entries itself.
OwnAuth ==
  Put(Put(Put(<<>>, K_sig, <<"1">>), K_api_key, <<"1">>), K_format,
      <<"x", "m", "l">>)

\* The maps handed to the signer.
SignInputs ==
  {Merge(p, a) : p \in MapsOver({K_x, K_y}), a \in {<<>>, OwnAuth}}
    \cup {Put(<<>>, K_expire, <<"1", "0", "0">>)}

\* The keys the caller of the signer sets and deletes.
SignKeys == {K_sig, K_format, K_x, K_y}

\* The maps handed to MakeRequest and AddExpire.
RequestInputs ==
  {Merge(p, a) : p \in MapsOver({K_event, K_expire}), a \in {<<>>, OwnAuth}}

\* The two latest entries of a log.
Keep2(log, rec) == IF Len(log) < 2 THEN Append(log, rec) ELSE <<log[2], rec>>

\* What one invocation of AddSig did: the map before and after it, and the
\* bytes it hashed.
SigRecordOf(cl, p, buffer) ==
  [before |-> p, after |-> PutSig(cl, p, buffer), buffer |-> buffer]

SigRecord(cl, p, order) == SigRecordOf(cl, p, SigBuffer(cl, p, order))

\* What one invocation of AddExpire did.
ExpireRecord(p, t) == [before |-> p, after |-> AddExpire(p, t), at |-> t]

NoGoroutines == <<>>

\* What the part of the state a specification does not use is held at.
Idle ==
  /\ sigLog = <<>>
  /\ expireLog = <<>>
  /\ sent = <<>>
  /\ mutations = 0
  /\ ticks = 0
  /\ pc = NoGoroutines
  /\ call = NoGoroutines
  /\ calls = NoGoroutines
  /\ serialized = TRUE
  /\ wire = <<>>
  /\ reply = <<>>
  /\ outcome = <<>>

---------------------------------------------------------------------------
(* The signer on a map its caller keeps changing.                          *)

InitSign ==
  /\ m = NewMixpanel(<<"k">>, <<"s">>)
  /\ now \in StartTimes
  /\ params \in SignInputs
  /\ Idle

\* The caller sets an entry of its map.
SetParam(k, v) ==
  /\ mutations < MaxMutations
  /\ Get(params, k) # v \/ k \notin DOMAIN params
  /\ params' = Put(params, k, v)
  /\ mutations' = mutations + 1
  /\ UNCHANGED <<m, now, sigLog, expireLog, sent, ticks, pc, call, calls,
                 serialized, wire, reply, outcome>>

\* The caller deletes an entry of its map.
DeleteParam(k) ==
  /\ mutations < MaxMutations
  /\ k \in DOMAIN params
  /\ params' = Delete(params, k)
  /\ mutations' = mutations + 1
  /\ UNCHANGED <<m, now, sigLog, expireLog, sent, ticks, pc, call, calls,
                 serialized, wire, reply, outcome>>

\* m.AddSig(&params), for every order its range loop may take.
CallAddSig ==
  \E rec \in {SigRecord(m, params, order) : order \in SigOrders(m, params)} :
    /\ params' = rec.after
    /\ sigLog' = Keep2(sigLog, rec)
    /\ UNCHANGED <<m, now, expireLog, sent, mutations, ticks, pc, call,
                   calls, serialized, wire, reply, outcome>>

NextSign ==
  \/ \E k \in SignKeys : \E v \in CallerValues(k) : SetParam(k, v)
  \/ \E k \in SignKeys : DeleteParam(k)
  \/ CallAddSig

SpecSign == InitSign /\ [][NextSign]_vars

---------------------------------------------------------------------------
(* AddExpire on the map of a caller, as time passes.                       *)

InitExpire ==
  /\ m \in Clients
  /\ now \in StartTimes
  /\ params \in RequestInputs
  /\ Idle

\* time passes
Tick ==
  /\ ticks < MaxTicks
  /\ now' = now + 1
  /\ ticks' = ticks + 1
  /\ UNCHANGED <<m, params, sigLog, expireLog, sent, mutations, pc, call,
                 calls, serialized, wire, reply, outcome>>

\* m.AddExpire(&params)
CallAddExpire ==
  /\ params' = AddExpire(params, now)
  /\ expireLog' = Keep2(expireLog, ExpireRecord(params, now))
  /\ UNCHANGED <<m, now, sigLog, sent, mutations, ticks, pc, call, calls,
                 serialized, wire, reply, outcome>>

NextExpire ==
  \/ Tick
  \/ CallAddExpire
  \/ \E v \in CallerValues(K_expire) : SetParam(K_expire, v)
  \/ DeleteParam(K_expire)

SpecExpire == InitExpire /\ [][NextExpire]_vars

---------------------------------------------------------------------------
(* One caller passing one map to MakeRequest, call after call.             *)

Init ==
  /\ m = NewMixpanel(<<"k">>, <<"s">>)
  /\ now \in StartTimes
  /\ params \in RequestInputs
  /\ Idle

\* The requests MakeRequest may send for a signed map, as the server reads
\* them, one for every order the range loop of line 140 may take.
RequestsOf(base, action, segs) ==
  {[base |-> base, action |-> action,
    carried |-> ParseQuery(JoinSegments(segs, order))] :
     order \in Perms(DOMAIN segs)}

Requests(base, action, p) == RequestsOf(base, action, Segments(p, DOMAIN p))

\* MakeRequest with AddSig called before AddExpire.
SigningRuns_SignFirst(cl, p, t) ==
  {[expire |-> ExpireRecord(rec.after, t), sig |-> rec,
    final |-> AddExpire(rec.after, t)] :
     rec \in {SigRecord(cl, RewriteEvent(p), o) :
                o \in SigOrders(cl, RewriteEvent(p))}}

\* Lines 125 to 137 of MakeRequest: the event rewritten, then AddExpire,
\* then AddSig; one run for every order the range loop of AddSig may take.
SigningRuns(cl, p, t) ==
  {[expire |-> ExpireRecord(RewriteEvent(p), t), sig |-> rec,
    final |-> rec.after] :
     rec \in {SigRecord(cl, AddExpire(RewriteEvent(p), t), o) :
                o \in SigOrders(cl, AddExpire(RewriteEvent(p), t))}}

\* m.MakeRequest("engage", params), up to the request it sends; the answer
\* changes neither the map nor the client.
CallMakeRequest ==
  /\ Len(sent) < MaxRequests
  /\ \E run \in SigningRuns(m, params, now) :
       \E req \in Requests(m.BaseUrl, "engage", run.final) :
         /\ params' = run.final
         /\ expireLog' = Keep2(expireLog, run.expire)
         /\ sigLog' = Keep2(sigLog, run.sig)
         /\ sent' = Append(sent,
              [before |-> params, after |-> run.final, at |-> now,
               request |-> req])
  /\ UNCHANGED <<m, now, mutations, ticks, pc, call, calls, serialized,
                 wire, reply, outcome>>

Next ==
  \/ Tick
  \/ CallMakeRequest

Spec == Init /\ [][Next]_vars

---------------------------------------------------------------------------
(* Reference definitions the claims are stated with.                       *)

\* The keys of S in ascending byte-wise order: the key at place i has
\* exactly i - 1 keys below it.
RefAscending(S) ==
  [i \in 1..Cardinality(S) |->
     CHOOSE k \in S : Cardinality({j \in S : StringLess(j, k)}) = i - 1]

RefJoin(q, keys, secret) ==
  Concat([i \in 1..Len(keys) |-> keys[i] \o <<"=">> \o q[keys[i]]]) \o secret

\* key=value for the keys of q in ascending order, then the secret.
RefCanonical(q, secret) == RefJoin(q, RefAscending(DOMAIN q), secret)

\* p without sig, api_key and format set to the values of the client.
RefSigned(cl, p) ==
  [k \in (DOMAIN p \ {K_sig}) \cup {K_api_key, K_format} |->
     IF k = K_api_key THEN cl.ApiKey
     ELSE IF k = K_format THEN cl.Format
     ELSE p[k]]

\* The keys on which two maps differ.
Changed(p, q) ==
  {k \in DOMAIN p \cup DOMAIN q :
     k \notin DOMAIN p \/ k \notin DOMAIN q \/ p[k] # q[k]}

Digits == <<"0", "1", "2", "3", "4", "5", "6", "7", "8", "9">>

RECURSIVE DecimalValue(_)
\* The number a string of decimal digits denotes.
DecimalValue(s) ==
  IF s = <<>> THEN 0
  ELSE 10 * DecimalValue(SubSeq(s, 1, Len(s) - 1))
         + (CHOOSE d \in 0..9 : Digits[d + 1] = s[Len(s)])

IsDecimal(s) ==
  /\ s # <<>>
  /\ \A i \in 1..Len(s) : s[i] \in Range(Digits)
  /\ Len(s) > 1 => s[1] # "0"

KnownVectorInput == Put(<<>>, K_expire, <<"1", "0", "0">>)

\* api_key=kexpire=100format=jsons
KnownVector ==
  <<"a", "p", "i", "_", "k", "e", "y", "=", "k",
    "e", "x", "p", "i", "r", "e", "=", "1", "0", "0",
    "f", "o", "r", "m", "a", "t", "=", "j", "s", "o", "n", "s">>

\* ["a"]
Json_a == <<"[", "\"", "a", "\"", "]">>

\* ["a","b"]
Json_a_b == <<"[", "\"", "a", "\"", ",", "\"", "b", "\"", "]">>

\* ["[\"a\"]"]
Json_Json_a ==
  <<"[", "\"", "[", "\\", "\"", "a", "\\", "\"", "]", "\"", "]">>

SignatureKeys == {K_api_key, K_format, K_expire, K_sig}

---------------------------------------------------------------------------
(* The claims.                                                             *)

\* C1: every request MakeRequest sends carries api_key, format, expire and
\* sig, the sig is the digest of the canonical string of exactly the other
\* pairs the request carries, and what it carries is the map as AddSig left
\* it.
C1_SignedRequest ==
  \A i \in 1..Len(sent) :
    /\ SignatureKeys \subseteq DOMAIN sent[i].request.carried
    /\ sent[i].request.carried[K_sig]
         = Md5Hex(RefCanonical(Delete(sent[i].request.carried, K_sig),
                               m.Secret))
    /\ sent[i].request.carried[K_api_key] = m.ApiKey
    /\ sent[i].request.carried[K_format] = m.Format
    /\ sent[i].request.carried = sent[i].after

\* A request was sent for a map that came with an event list, without
\* expire, and with sig, api_key and format of the caller.
C1_Witness ==
  \E i \in 1..Len(sent) :
    /\ Get(sent[i].before, K_event) = <<"a", ",", "b">>
    /\ K_expire \notin DOMAIN sent[i].before
    /\ AuthKeys \subseteq DOMAIN sent[i].before

\* C2: the sig AddSig stores depends only on the entries other than sig (with
\* api_key and format as the client sets them): two invocations on maps that
\* agree there store the same sig, whatever order the map is walked in and
\* whether or not a sig was there; and AddSig on its own result changes
\* nothing.
C2_PureFunction ==
  Len(sigLog) = 2 =>
    /\ RefSigned(m, sigLog[1].before) = RefSigned(m, sigLog[2].before)
         => sigLog[1].after[K_sig] = sigLog[2].after[K_sig]
    /\ sigLog[2].before = sigLog[1].after
         => sigLog[2].after = sigLog[1].after

\* AddSig ran on a map without sig, then again on its own result.
C2_Witness ==
  /\ Len(sigLog) = 2
  /\ K_sig \notin DOMAIN sigLog[1].before
  /\ {K_x, K_y} \subseteq DOMAIN sigLog[1].before
  /\ sigLog[2].before = sigLog[1].after

\* C3: the bytes AddSig hashes are the reference canonical string of the
\* map it is given, and the known vector comes out as stated.
C3_CanonicalString ==
  \A i \in 1..Len(sigLog) :
    /\ sigLog[i].buffer
         = RefCanonical(RefSigned(m, sigLog[i].before), m.Secret)
    /\ sigLog[i].before = KnownVectorInput => sigLog[i].buffer = KnownVector

\* AddSig ran on the map of the known vector.
C3_Witness ==
  \E i \in 1..Len(sigLog) : sigLog[i].before = KnownVectorInput

\* C4 as stated: any change of the signed map makes the next AddSig store
\* another sig.
C4_AnyMutation ==
  (Len(sigLog) = 2 /\ Changed(sigLog[1].after, sigLog[2].before) # {})
    => sigLog[2].after[K_sig] # sigLog[1].after[K_sig]

\* C4 as amended: when exactly one entry other than sig, api_key and format
\* was added, removed or given another value since the map was signed, the
\* next AddSig hashes other bytes and stores another sig.
C4_OneEntryMutation ==
  (Len(sigLog) = 2
     /\ Cardinality(Changed(sigLog[1].after, sigLog[2].before) \ AuthKeys) = 1)
    => /\ sigLog[2].buffer # sigLog[1].buffer
       /\ sigLog[2].after[K_sig] # sigLog[1].after[K_sig]

\* The value of x was changed between two invocations of AddSig.
C4_Witness ==
  /\ Len(sigLog) = 2
  /\ Changed(sigLog[1].after, sigLog[2].before) = {K_x}
  /\ K_x \in DOMAIN sigLog[1].after
  /\ K_x \in DOMAIN sigLog[2].before

\* C5: AddExpire leaves a map with a non-empty expire as it is; otherwise it
\* sets expire to the decimal string of now + 5 days, in seconds, and leaves
\* every other entry as it is.
C5_AddExpireFrame ==
  \A i \in 1..Len(expireLog) :
    IF Get(expireLog[i].before, K_expire) # <<>>
      THEN expireLog[i].after = expireLog[i].before
      ELSE /\ DOMAIN expireLog[i].after
                = DOMAIN expireLog[i].before \cup {K_expire}
           /\ \A k \in DOMAIN expireLog[i].before \ {K_expire} :
                expireLog[i].after[k] = expireLog[i].before[k]
           /\ IsDecimal(expireLog[i].after[K_expire])
           /\ DecimalValue(expireLog[i].after[K_expire])
                = expireLog[i].at + 5 * 24 * 60 * 60

\* AddExpire ran on a map whose expire was set, and later, the clock having
\* moved, on a map with an empty expire and other entries.
C5_Witness ==
  /\ Len(expireLog) = 2
  /\ Get(expireLog[1].before, K_expire) = <<"1", "0", "0">>
  /\ K_expire \in DOMAIN expireLog[2].before
  /\ expireLog[2].before[K_expire] = <<>>
  /\ K_event \in DOMAIN expireLog[2].before
  /\ expireLog[2].at > expireLog[1].at

\* C10: MakeRequest leaves its rewriting in the map of the caller: a non-empty
\* event becomes the JSON array of its parts, an empty one is dropped, and
\* expire, api_key, format and sig are added.  A second call on the same map
\* encodes the encoded event again, so that it sends another event value and
\* another sig, and keeps the expire of the first call.
C10_EventRewriting ==
  /\ Len(sent) > 0 => params = sent[Len(sent)].after
  /\ \A i \in 1..Len(sent) :
       /\ Get(sent[i].before, K_event) = <<>>
            => /\ K_event \notin DOMAIN sent[i].after
               /\ K_event \notin DOMAIN sent[i].request.carried
       /\ Get(sent[i].before, K_event) = <<"a">>
            => sent[i].after[K_event] = Json_a
       /\ Get(sent[i].before, K_event) = <<"a", ",", "b">>
            => sent[i].after[K_event] = Json_a_b
       /\ Get(sent[i].before, K_event) = Json_a
            => sent[i].after[K_event] = Json_Json_a
       /\ DOMAIN sent[i].after
            = (DOMAIN sent[i].before
                 \ (IF Get(sent[i].before, K_event) = <<>>
                      THEN {K_event} ELSE {}))
                \cup SignatureKeys
  /\ \A i \in 2..Len(sent) :
       (sent[i].before = sent[i - 1].after /\ K_event \in DOMAIN sent[i].before)
         => /\ sent[i].request.carried[K_event]
                 # sent[i - 1].request.carried[K_event]
            /\ sent[i].after[K_sig] # sent[i - 1].after[K_sig]
            /\ sent[i].after[K_expire] = sent[i - 1].after[K_expire]

\* Two calls were made on one map that came with an event list and without
\* expire, the clock moving between them.
C10_Witness ==
  /\ Len(sent) = 2
  /\ Get(sent[1].before, K_event) = <<"a", ",", "b">>
  /\ K_expire \notin DOMAIN sent[1].before
  /\ sent[2].before = sent[1].after
  /\ sent[2].at > sent[1].at

---------------------------------------------------------------------------
(* The endpoint methods.                                                   *)

Methods ==
  {"EventQuery", "ExportQuery", "PeopleQuery", "UserInfo",
   "SegmentationQuery", "TopEvents", "MostCommonEventsLast31Days"}

\* Every endpoint method assigning the main host.
AssignedHost_AllMain(method) == MainHost

\* The host a method assigns to m.BaseUrl before it calls MakeRequest;
\* UserInfo assigns it inside PeopleQuery.
AssignedHost(method) ==
  IF method = "ExportQuery" THEN ExportHost ELSE MainHost

\* The path a method passes to MakeRequest.
ActionOf(method) ==
  CASE method = "EventQuery" -> "events/properties"
    [] method = "ExportQuery" -> "export"
    [] method \in {"PeopleQuery", "UserInfo"} -> "engage"
    [] method = "SegmentationQuery" -> "segmentation"
    [] method = "TopEvents" -> "events/top"
    [] method = "MostCommonEventsLast31Days" -> "events/names"

\* Line 145: the request goes to the base URL read from the client.
RequestTo(base, method) ==
  [method |-> method, base |-> base, action |-> ActionOf(method)]

---------------------------------------------------------------------------
(* Goroutines calling endpoint methods on one client.  The parameter map   *)
(* of a call is local to it; what the calls share is m.BaseUrl, written    *)
(* word by word and without a lock.                                        *)

Goroutines == {1, 2}

InitRace ==
  /\ m = NewMixpanel(<<"k">>, <<"s">>)
  /\ now \in StartTimes
  /\ params = <<>>
  /\ sigLog = <<>>
  /\ expireLog = <<>>
  /\ sent = <<>>
  /\ mutations = 0
  /\ ticks = 0
  /\ pc = [g \in Goroutines |-> "idle"]
  /\ call = [g \in Goroutines |-> "none"]
  /\ calls = [g \in Goroutines |-> 0]
  /\ serialized \in BOOLEAN
  /\ wire = [g \in Goroutines |-> <<>>]
  /\ reply = <<>>
  /\ outcome = <<>>

\* Goroutine g calls a method; serialized callers wait for the calls in
\* progress to return.
Enter(g, method) ==
  /\ pc[g] = "idle"
  /\ calls[g] < MaxCalls
  /\ serialized => \A h \in Goroutines : pc[h] = "idle"
  /\ pc' = [pc EXCEPT ![g] = "assign"]
  /\ call' = [call EXCEPT ![g] = method]
  /\ calls' = [calls EXCEPT ![g] = calls[g] + 1]
  /\ UNCHANGED <<m, now, params, sigLog, expireLog, sent, mutations, ticks,
                 serialized, wire, reply, outcome>>

\* m.BaseUrl = host, the first word written.
AssignFirst(g, word) ==
  /\ pc[g] = "assign"
  /\ m' = [m EXCEPT !.BaseUrl[word] = StringHeader(AssignedHost(call[g]))[word]]
  /\ pc' = [pc EXCEPT ![g] = IF word = "data" THEN "wrote data" ELSE "wrote len"]
  /\ UNCHANGED <<now, params, sigLog, expireLog, sent, mutations, ticks,
                 call, calls, serialized, wire, reply, outcome>>

\* m.BaseUrl = host, the second word written.
AssignSecond(g) ==
  /\ pc[g] \in {"wrote data", "wrote len"}
  /\ m' = [m EXCEPT !.BaseUrl = StringHeader(AssignedHost(call[g]))]
  /\ pc' = [pc EXCEPT ![g] = "request"]
  /\ UNCHANGED <<now, params, sigLog, expireLog, sent, mutations, ticks,
                 call, calls, serialized, wire, reply, outcome>>

\* MakeRequest reads m.BaseUrl, sends the request, and the call returns.
SendRequest(g) ==
  /\ pc[g] = "request"
  /\ wire' = [wire EXCEPT ![g] = <<RequestTo(m.BaseUrl, call[g])>>]
  /\ pc' = [pc EXCEPT ![g] = "idle"]
  /\ UNCHANGED <<m, now, params, sigLog, expireLog, sent, mutations, ticks,
                 call, calls, serialized, reply, outcome>>

NextRace ==
  \/ \E g \in Goroutines : \E method \in Methods : Enter(g, method)
  \/ \E g \in Goroutines : \E word \in {"data", "len"} : AssignFirst(g, word)
  \/ \E g \in Goroutines : AssignSecond(g)
  \/ \E g \in Goroutines : SendRequest(g)

SpecRace == InitRace /\ [][NextRace]_vars

\* The host of each endpoint.
RefHost(method) ==
  IF method = "ExportQuery" THEN "http://data.mixpanel.com/api/2.0"
  ELSE "http://mixpanel.com/api/2.0"

\* C6: when the calls on a client are serialized every request goes to the
\* host of its endpoint; when they are not, a request may go to the host of
\* the other endpoint (the witness).
C6_SerializedHost ==
  serialized =>
    \A g \in Goroutines :
      \A i \in 1..Len(wire[g]) :
        /\ wire[g][i].base.data = RefHost(wire[g][i].method)
        /\ wire[g][i].base = StringHeader(wire[g][i].base.data)

\* Unserialized, an export request went to the main host while a request of
\* the main host went to the export host.
C6_Witness ==
  /\ ~serialized
  /\ \E g \in Goroutines :
       /\ wire[g] # <<>>
       /\ wire[g][1].method = "ExportQuery"
       /\ wire[g][1].base = StringHeader(MainHost)
  /\ \E g \in Goroutines :
       /\ wire[g] # <<>>
       /\ wire[g][1].method = "UserInfo"
       /\ wire[g][1].base = StringHeader(ExportHost)

---------------------------------------------------------------------------
(* Response bodies and encoding/json.                                      *)
(*                                                                         *)
(* A body is a sequence of pieces: a line feed, a carriage return, or a    *)
(* run of bytes given by its text.  What json reads from a run that is a   *)
(* JSON document is tabulated below, as a tree tagged with its JSON type.  *)

JNil == [t |-> "nil"]
JNum(n) == [t |-> "number", v |-> n]
JStr(x) == [t |-> "string", v |-> x]
JArr(a) == [t |-> "array", v |-> a]
JObj(f) == [t |-> "object", v |-> f]

T_Invalid == "invalid"
T_Null == "null"
T_Five == "5"
T_EmptyArray == "[]"
T_Names == "[\"a\"]"
T_EmptyObject == "{}"
T_NoResults == "{\"results\":[]}"
T_OneResult == "{\"results\":[{\"$properties\":{\"name\":\"n\"}}]}"
T_BareResult == "{\"results\":[{}]}"
T_ResultsNumber == "{\"results\":5}"
T_LegendString == "{\"legend_size\":\"x\"}"
T_Legend == "{\"legend_size\":3}"
T_EventA == "{\"event\":\"a\",\"properties\":{}}"
T_EventB == "{\"event\":\"b\",\"properties\":{\"x\":1}}"
T_EventNumber == "{\"event\":5}"

Whitespace == {"\n", "\r"}

\* The documents among the runs, each with the tree json reads from it.
Documents ==
  (T_Null :> JNil)
    @@ (T_Five :> JNum(5))
    @@ (T_EmptyArray :> JArr(<<>>))
    @@ (T_Names :> JArr(<<JStr("a")>>))
    @@ (T_EmptyObject :> JObj(<<>>))
    @@ (T_NoResults :> JObj([results |-> JArr(<<>>)]))
    @@ (T_OneResult :>
          JObj([results |->
                  JArr(<<JObj("$properties" :> JObj([name |-> JStr("n")]))>>)]))
    @@ (T_BareResult :> JObj([results |-> JArr(<<JObj(<<>>)>>)]))
    @@ (T_ResultsNumber :> JObj([results |-> JNum(5)]))
    @@ (T_LegendString :> JObj([legend_size |-> JStr("x")]))
    @@ (T_Legend :> JObj([legend_size |-> JNum(3)]))
    @@ (T_EventA :> JObj([event |-> JStr("a"), properties |-> JObj(<<>>)]))
    @@ (T_EventB :>
          JObj([event |-> JStr("b"),
                properties |-> JObj([x |-> JNum(1)])]))
    @@ (T_EventNumber :> JObj([event |-> JNum(5)]))

IsWhitespace(piece) == piece \in Whitespace

\* The syntax check of json.Unmarshal: one document, white space around it.
ParseRuns(runs) ==
  IF Len(runs) = 1 /\ runs[1] \in DOMAIN Documents
    THEN [ok |-> TRUE, doc |-> Documents[runs[1]]]
    ELSE [ok |-> FALSE, doc |-> JNil]

Parse(body) ==
  LET Run(piece) == ~IsWhitespace(piece)
  IN  ParseRuns(SelectSeq(body, Run))

\* A field of an object that is absent or null leaves the Go field alone.
Field(obj, name) == IF name \in DOMAIN obj THEN obj[name] ELSE JNil

IsArrayOf(d, types) ==
  d.t = "array" /\ \A i \in 1..Len(d.v) : d.v[i].t \in types

IsObjectOf(d, types) ==
  d.t = "object" /\ \A k \in DOMAIN d.v : d.v[k].t \in types

\* The struct Data of EventQueryResult and SegmentationQueryResult.
FitsData(d) ==
  \/ d.t = "nil"
  \/ /\ d.t = "object"
     /\ \/ Field(d.v, "series").t = "nil"
        \/ IsArrayOf(Field(d.v, "series"), {"string", "nil"})
     /\ \/ Field(d.v, "values").t = "nil"
        \/ /\ Field(d.v, "values").t = "object"
           /\ \A k \in DOMAIN Field(d.v, "values").v :
                \/ Field(d.v, "values").v[k].t = "nil"
                \/ IsObjectOf(Field(d.v, "values").v[k], {"number", "nil"})

\* An element of Events of TopEventsResult.
FitsTopEvent(d) ==
  \/ d.t = "nil"
  \/ /\ d.t = "object"
     /\ Field(d.v, "amount").t \in {"number", "nil"}
     /\ Field(d.v, "event").t \in {"string", "nil"}
     /\ Field(d.v, "percent_change").t \in {"number", "nil"}

\* Whether a document other than null has the JSON types the Go type of a
\* result asks for (lines 33 to 63).
Fits(shape, d) ==
  CASE shape \in {"EventQueryResult", "SegmentationQueryResult"} ->
         /\ d.t = "object"
         /\ Field(d.v, "legend_size").t \in {"number", "nil"}
         /\ FitsData(Field(d.v, "data"))
    [] shape = "ExportQueryResult" ->
         /\ d.t = "object"
         /\ Field(d.v, "event").t \in {"string", "nil"}
         /\ Field(d.v, "properties").t \in {"object", "nil"}
    [] shape = "TopEventsResult" ->
         /\ d.t = "object"
         /\ Field(d.v, "type").t \in {"string", "nil"}
         /\ \/ Field(d.v, "events").t = "nil"
            \/ /\ Field(d.v, "events").t = "array"
               /\ \A i \in 1..Len(Field(d.v, "events").v) :
                    FitsTopEvent(Field(d.v, "events").v[i])
    [] shape = "CommonEventsResult" -> IsArrayOf(d, {"string", "nil"})
    [] shape = "map" -> d.t = "object"

\* json.Unmarshal(bytes, &result) on a zero result: an error for bytes that
\* are not JSON and for a document of another type than the result; null
\* leaves the result as it was.  value is the document decoded, JNil for a
\* result left at its zero value.
UnmarshalParsed(shape, parsed) ==
  IF ~parsed.ok THEN [err |-> TRUE, value |-> JNil]
  ELSE IF parsed.doc.t = "nil" THEN [err |-> FALSE, value |-> JNil]
  ELSE IF Fits(shape, parsed.doc) THEN [err |-> FALSE, value |-> parsed.doc]
  ELSE [err |-> TRUE,
        value |-> IF shape = "map" \/ parsed.doc.t # "object"
                    THEN JNil ELSE parsed.doc]

Unmarshal(shape, body) == UnmarshalParsed(shape, Parse(body))

\* The Go type each method decodes its response into.
ShapeOf(method) ==
  CASE method = "EventQuery" -> "EventQueryResult"
    [] method = "ExportQuery" -> "ExportQueryResult"
    [] method \in {"PeopleQuery", "UserInfo"} -> "map"
    [] method = "SegmentationQuery" -> "SegmentationQueryResult"
    [] method = "TopEvents" -> "TopEventsResult"
    [] method = "MostCommonEventsLast31Days" -> "CommonEventsResult"

\* What a call gives back: a panic, or a result and an error.
Returned(value, err) == [panicked |-> FALSE, err |-> err, value |-> value]
Panicked == [panicked |-> TRUE, err |-> FALSE, value |-> JNil]

\* EventQuery, SegmentationQuery, TopEvents, MostCommonEventsLast31Days:
\* the transport error, or else the result and the error of json.Unmarshal.
DecodeSingle(shape, rep) ==
  IF rep.err THEN Returned(JNil, TRUE)
  ELSE Returned(Unmarshal(shape, rep.body).value,
                Unmarshal(shape, rep.body).err)

\* PeopleQuery: the error of json.Unmarshal is dropped (line 208).
PeopleQuery(rep) ==
  IF rep.err THEN Returned(JNil, TRUE)
  ELSE Returned(Unmarshal("map", rep.body).value, FALSE)

\* result[key] on a map[string]interface{}, nil for a nil map and for an
\* absent key.
MapIndex(result, key) ==
  IF result.t = "object" THEN Field(result.v, key) ELSE JNil

\* UserInfo without the test of line 221.
UserInfoOf_NoEmptyCase(people) ==
  IF people.err THEN people
  ELSE IF MapIndex(people.value, "results").t # "array" THEN Panicked
  ELSE IF Len(MapIndex(people.value, "results").v) = 0 THEN Panicked
  ELSE IF MapIndex(people.value, "results").v[1].t # "object" THEN Panicked
  ELSE IF MapIndex(MapIndex(people.value, "results").v[1],
                   "$properties").t # "object" THEN Panicked
  ELSE Returned(MapIndex(MapIndex(people.value, "results").v[1],
                         "$properties"), FALSE)

\* Lines 218 to 224 of UserInfo, given what PeopleQuery returned: a type
\* assertion on a value of another type panics.
UserInfoOf(people) ==
  IF people.err THEN people
  ELSE IF MapIndex(people.value, "results").t # "array" THEN Panicked
  ELSE IF Len(MapIndex(people.value, "results").v) = 0
    THEN Returned(JObj(<<>>), FALSE)
  ELSE IF MapIndex(people.value, "results").v[1].t # "object" THEN Panicked
  ELSE IF MapIndex(MapIndex(people.value, "results").v[1],
                   "$properties").t # "object" THEN Panicked
  ELSE Returned(MapIndex(MapIndex(people.value, "results").v[1],
                         "$properties"), FALSE)

UserInfo(rep) == UserInfoOf(PeopleQuery(rep))

\* An ExportQueryResult decoded from a document.
ExportRecord(value) ==
  [Event |-> IF MapIndex(value, "event").t = "string"
               THEN MapIndex(value, "event").v ELSE "",
   Properties |-> MapIndex(value, "properties")]

RECURSIVE ExportRecords_Abort(_)
\* The loop of ExportQuery leaving at the first line that does not decode.
ExportRecords_Abort(lines) ==
  IF lines = <<>> THEN <<>>
  ELSE IF Head(lines) = <<>> THEN ExportRecords_Abort(Tail(lines))
  ELSE IF Unmarshal("ExportQueryResult", Head(lines)).err THEN <<>>
  ELSE <<ExportRecord(Unmarshal("ExportQueryResult", Head(lines)).value)>>
         \o ExportRecords_Abort(Tail(lines))

RECURSIVE ExportRecords(_)
\* Lines 186 to 197: empty lines and lines that do not decode are passed
\* over, the others appended.
ExportRecords(lines) ==
  IF lines = <<>> THEN <<>>
  ELSE IF Head(lines) = <<>> THEN ExportRecords(Tail(lines))
  ELSE IF Unmarshal("ExportQueryResult", Head(lines)).err
    THEN ExportRecords(Tail(lines))
  ELSE <<ExportRecord(Unmarshal("ExportQueryResult", Head(lines)).value)>>
         \o ExportRecords(Tail(lines))

ExportQuery(rep) ==
  IF rep.err THEN Returned(<<>>, TRUE)
  ELSE Returned(ExportRecords(Split(rep.body, "\n")), FALSE)

\* What a method returns for an answer of the server.
ReturnOf(method, rep) ==
  CASE method = "ExportQuery" -> ExportQuery(rep)
    [] method = "PeopleQuery" -> PeopleQuery(rep)
    [] method = "UserInfo" -> UserInfo(rep)
    [] OTHER -> DecodeSingle(ShapeOf(method), rep)

---------------------------------------------------------------------------
(* One caller calling endpoint methods, one call after the other.  The     *)
(* signing of the parameter map is the subject of Spec; here a call is its *)
(* request and what it makes of the answer.                                *)

RECURSIVE SeqsUpTo(_, _)
\* The sequences over S of length n at most.
SeqsUpTo(S, n) ==
  IF n = 0 THEN {<<>>}
  ELSE SeqsUpTo(S, n - 1)
         \cup {Append(q, x) : q \in SeqsUpTo(S, n - 1), x \in S}

\* {"event":"a","properties":{}}\n\ninvalid\n{"event":"b","properties":{"x":1}}
ExampleBody == <<T_EventA, "\n", "\n", T_Invalid, "\n", T_EventB>>

\* The lines of an export stream: empty, a record, bytes that are not JSON,
\* a record whose event is a number.
ExportLines == {<<>>, <<T_EventA>>, <<T_EventB>>, <<T_Invalid>>,
                <<T_EventNumber>>}

RECURSIVE JoinLines(_)
\* Lines with a line feed between them.
JoinLines(lines) ==
  IF Len(lines) = 1 THEN lines[1]
  ELSE JoinLines(DropLast(lines)) \o <<"\n">> \o lines[Len(lines)]

\* The response bodies a server sends to a method.
Bodies(method) ==
  IF method = "ExportQuery"
    THEN {JoinLines(lines) :
            lines \in SeqsUpTo(ExportLines, MaxLines) \ {<<>>}}
           \cup {ExampleBody,
                 <<T_EventA, "\r", "\n", T_EventB, "\r", "\n">>,
                 <<T_Null, "\n", T_EventA, T_EventB>>}
    ELSE {<<>>} \cup {<<run>> : run \in DOMAIN Documents \cup {T_Invalid}}
           \cup {<<T_NoResults, "\n">>, <<T_Legend, T_Legend>>}

\* The answers to a request: a transport error, or a body.
Replies(method) ==
  {[err |-> TRUE, body |-> <<>>]}
    \cup {[err |-> FALSE, body |-> b] : b \in Bodies(method)}

InitDecode ==
  /\ m = NewMixpanel(<<"k">>, <<"s">>)
  /\ now \in StartTimes
  /\ params = <<>>
  /\ Idle

\* A whole call of a method: the base URL assigned, the request sent, the
\* answer decoded.
EndpointCall(method) ==
  \E rep \in Replies(method) :
    /\ m' = [m EXCEPT !.BaseUrl = StringHeader(AssignedHost(method))]
    /\ wire' = <<RequestTo(StringHeader(AssignedHost(method)), method)>>
    /\ reply' = rep
    /\ outcome' = ReturnOf(method, rep)
    /\ UNCHANGED <<now, params, sigLog, expireLog, sent, mutations, ticks,
                   pc, call, calls, serialized>>

NextDecode == \E method \in Methods : EndpointCall(method)

SpecDecode == InitDecode /\ [][NextDecode]_vars

\* The method of the latest call.
Called == IF wire = <<>> THEN "none" ELSE wire[1].method

SingleObjectMethods ==
  {"EventQuery", "PeopleQuery", "SegmentationQuery", "TopEvents",
   "MostCommonEventsLast31Days"}

\* C7: a body that does not decode into the result of EventQuery,
\* PeopleQuery, SegmentationQuery, TopEvents or MostCommonEventsLast31Days
\* makes the method return an error.
C7_DecodeErrorReturned ==
  (/\ Called \in SingleObjectMethods
   /\ ~reply.err
   /\ Unmarshal(ShapeOf(Called), reply.body).err)
    => (~outcome.panicked /\ outcome.err)

\* The records of the lines of the example and of the other documents an
\* export line may hold.
RefExportRecord(run) ==
  CASE run = T_EventA -> [Event |-> "a", Properties |-> JObj(<<>>)]
    [] run = T_EventB -> [Event |-> "b", Properties |-> JObj([x |-> JNum(1)])]
    [] run = T_Null -> [Event |-> "", Properties |-> JNil]

\* The runs of a line, white space aside.
RefRuns(line) ==
  LET Run(piece) == piece # "\r"
  IN  SelectSeq(line, Run)

\* A line decodes when it holds one document that is an export record.
RefDecodes(line) ==
  /\ Len(RefRuns(line)) = 1
  /\ RefRuns(line)[1] \in {T_EventA, T_EventB, T_Null}

RefExportRecords(lines) ==
  LET good == SelectSeq(lines, RefDecodes)
  IN  [i \in 1..Len(good) |-> RefExportRecord(RefRuns(good[i])[1])]

\* C8: for a body that came without a transport error ExportQuery returns no
\* error and one record for each line that decodes, in the order of the
\* lines; the example of the specification gives the records a and b.
C8_ExportSkipsBadLines ==
  (Called = "ExportQuery" /\ ~reply.err)
    => /\ ~outcome.panicked
       /\ ~outcome.err
       /\ outcome.value = RefExportRecords(Split(reply.body, "\n"))
       /\ reply.body = ExampleBody
            => outcome.value = <<RefExportRecord(T_EventA),
                                 RefExportRecord(T_EventB)>>

\* ExportQuery decoded the example body.
C8_Witness ==
  /\ Called = "ExportQuery"
  /\ ~reply.err
  /\ reply.body = ExampleBody
  /\ Len(outcome.value) = 2

\* The document of a body made of one document and white space.
RefDocument(body) ==
  LET Run(piece) == piece \notin {"\n", "\r"}
  IN  SelectSeq(body, Run)

\* C9: UserInfo returns the error of the transport; for an empty results
\* list an empty mapping and no error; for a results list whose first
\* element holds a $properties mapping, that mapping and no error; and for
\* every other body it does not return.
C9_UserInfo ==
  Called = "UserInfo" =>
    IF reply.err THEN ~outcome.panicked /\ outcome.err
    ELSE IF RefDocument(reply.body) = <<T_NoResults>>
      THEN outcome = Returned(JObj(<<>>), FALSE)
    ELSE IF RefDocument(reply.body) = <<T_OneResult>>
      THEN outcome = Returned(JObj([name |-> JStr("n")]), FALSE)
    ELSE outcome.panicked

\* UserInfo was answered with an empty results list.
C9_Witness ==
  /\ Called = "UserInfo"
  /\ ~reply.err
  /\ reply.body = <<T_NoResults>>
  /\ ~outcome.panicked

=============================================================================
